---- MODULE Spec2Model ----
(***************************************************************************)
(* Model of the x-scheduler engine: SchedulerService (the registry of      *)
(* posts and threads, the monthly quota counter and the APScheduler job    *)
(* store it books date triggers in) and XAPIService (the publish pipeline  *)
(* that walks a thread's members in position order).                       *)
(*                                                                         *)
(* In Spec every operation of SchedulerService is one action, run to       *)
(* completion. SpecBooking adds the admissions in which add_job raises,    *)
(* SpecConc takes schedule_post and the firings apart into the steps at    *)
(* which other callers and the dispatcher's workers can run in between.    *)
(* The external publisher (tweepy create_tweet) is an oracle: each call    *)
(* returns a remote id, returns a response without an id, or raises.       *)
(* The job store keeps the jobs add_job booked; a job whose run date has   *)
(* been reached is taken out of the store and its callback runs once; a    *)
(* job reached too late is taken out without its callback being run.       *)
(* The posts and threads handed to schedule_post / schedule_thread are     *)
(* fresh objects, as CSVProcessor builds them.                             *)
(***************************************************************************)
EXTENDS Integers, Sequences, FiniteSets, TLC

\* ------------------------------------------------------------------ bounds
MaxPosts   == 1   \* post identifiers in use
MaxMembers == 3   \* longest member list of a thread handed to schedule_thread
MaxPos     == 1   \* largest thread_position of a member
MaxMonthlyPosts == 3   \* settings.MAX_MONTHLY_POSTS, scaled down from 500

PostIds   == 1..MaxPosts
\* one thread identifier: every thread handed in is thread 1, a second
\* upload under the same thread_id replaces the first
ThreadIds == {1}
\* two instants: a run date is due when it is booked (0) or becomes due at
\* the one tick of the clock (1)
Times     == {0, 1}

\* ------------------------------------------------------------ data model
\* Python's None in an Optional field: <<>>; a present value is a tuple.
None == <<>>
\* what the bookkeeping holds for the status of an entity that is not there
NoStatus == "none"

\* class PostStatus(str, Enum): the four members the enum declares.
PostStatus == {"pending", "scheduled", "published", "failed"}
PENDING   == "pending"
SCHEDULED == "scheduled"
PUBLISHED == "published"
FAILED    == "failed"
\* The name cancel_post / cancel_thread look up on the enum.
CANCELLED == "cancelled"

\* Evaluating PostStatus.<name> succeeds only for a declared member;
\* otherwise Python raises AttributeError.
HasMember(name) == name \in PostStatus

\* What a create_tweet call can do: return a response with an id, return a
\* response without one, or raise.
RETURNS_ID == "returns_id"
NO_ID      == "no_id"
RAISES     == "raises"
Outcomes   == {RETURNS_ID, NO_ID, RAISES}

\* response.data["id"]: the publisher gives every unit it publishes an id of
\* its own; the engine only tests the id for presence.
RemoteId(post_id) == <<"x", post_id>>

\* Optional[int] thread_position: <<>> is None, <<n>> is the integer n.
Positions == {<<>>} \cup {<<n>> : n \in 1..MaxPos}

\* The content of a post is modelled by its length. The lengths tried are
\* the longest one the validator lets through and the first one it refuses.
MaxContentLength == 280
ContentLengths == {MaxContentLength, MaxContentLength + 1}

\* (variant: the validator lets one more character through)
validate_content_length_off_by_one(v) == ~(v > MaxContentLength + 1)

\* @validator("content"): FALSE when it raises ValueError, which makes the
\* construction of the XPost fail.
validate_content_length(v) == ~(v > MaxContentLength)

\* the contents an XPost can be constructed with
AcceptedContents == {v \in ContentLengths : validate_content_length(v)}

\* XPost as constructed (status PENDING, no remote id).
NewPost(pid, date, content) ==
    [id |-> pid, status |-> PENDING, x_post_id |-> None,
     scheduled_date |-> date, content |-> content]

\* XPost as constructed for a row with a thread_id: member i of thread tid.
NewMember(tid, i, pos, content) ==
    [id |-> <<tid, i>>, thread_position |-> pos, status |-> PENDING,
     x_post_id |-> None, content |-> content]

\* XThread as constructed from the lists of its members' positions and
\* contents.
NewThread(tid, positions, contents, date) ==
    [id |-> tid,
     posts |-> [i \in 1..Len(positions) |->
                   NewMember(tid, i, positions[i], contents[i])],
     status |-> PENDING, scheduled_date |-> date]

VARIABLES
    posts,               \* self.posts: id -> XPost
    threads,             \* self.threads: id -> XThread
    jobs,                \* the scheduler's job store: set of [id, run_date]
    monthly_post_count,  \* self.monthly_post_count
    now,                 \* the clock the dispatcher compares run dates with
    lastOp,              \* the operation that produced this state, its
                         \* arguments, its return value and what it saw
    admitting,           \* the schedule_post calls in progress, per caller
    firing,              \* the firing callbacks in progress
    published            \* the units the publisher has returned an id for
                         \* (kept in SpecPub only)

vars == <<posts, threads, jobs, monthly_post_count, now, lastOp,
          admitting, firing, published>>

\* what the operations that run to completion leave alone
conc == <<admitting, firing, published>>

\* The threads of control that call into the engine: the upload task and
\* the endpoints are plain functions, which FastAPI runs on its thread pool.
Callers == {"a", "b"}

\* a caller that is not inside schedule_post
Idle == [pc |-> "idle"]

max_monthly_posts == MaxMonthlyPosts

\* dict assignment d[k] = v
Put(d, k, v) == [x \in (DOMAIN d) \cup {k} |-> IF x = k THEN v ELSE d[x]]

\* ------------------------------------------------------------- job store
PostJobId(pid)   == <<"post", pid>>
ThreadJobId(tid) == <<"thread", tid>>

JobExists(js, jid) == \E j \in js : j.id = jid

\* (variant: the job is added next to an existing one of the same id)
add_job_keeps_old(js, jid, date) == js \cup {[id |-> jid, run_date |-> date]}

\* scheduler.add_job(..., id=jid, replace_existing=True)
add_job(js, jid, date) ==
    {j \in js : j.id # jid} \cup {[id |-> jid, run_date |-> date]}

\* (variant: the job stays in the store)
remove_job_keeps(js, jid) == js

\* scheduler.remove_job(jid); raises JobLookupError when JobExists is false
remove_job(js, jid) == {j \in js : j.id # jid}

\* run dates of the jobs booked under jid
RunDates(js, jid) == {j.run_date : j \in {k \in js : k.id = jid}}

\* ------------------------------------------------------------ bookkeeping
BlankOp ==
    [op |-> "init", id |-> 0, ret |-> FALSE, units |-> 0, pre_dates |-> {},
     obj_status |-> NoStatus, pre_count |-> 0, pre_status |-> NoStatus,
     had_job |-> FALSE, calls |-> <<>>, raised |-> FALSE, content |-> 0]

Init ==
    /\ posts = <<>>
    /\ threads = <<>>
    /\ jobs = {}
    /\ monthly_post_count = 0
    /\ now = 0
    /\ lastOp = BlankOp
    /\ admitting = [c \in Callers |-> Idle]
    /\ firing = {}
    /\ published = {}

\* ------------------------------------------------------------ ingestion
\* CSVProcessor._create_post_from_row builds XPost(content=...) for every
\* row, standalone post or thread member. When the validator raises, the
\* exception leaves process_csv through its except clause, which returns
\* no posts and no threads: nothing of the file is handed to the engine.
CreateXPostRaises(content) ==
    /\ ~validate_content_length(content)
    /\ UNCHANGED <<posts, threads, jobs, monthly_post_count, now>>
    /\ lastOp' = [BlankOp EXCEPT !.op = "create_post", !.ret = FALSE,
                     !.raised = TRUE, !.content = content]

DoCreateXPostRaises ==
    /\ UNCHANGED conc
    /\ \E content \in ContentLengths : CreateXPostRaises(content)

\* ---------------------------------------------------------- schedule_post
\* (variant: the check lets one more post in)
PostQuotaReached_off_by_one(count) == count > max_monthly_posts

\* if self.monthly_post_count >= self.max_monthly_posts: return False
PostQuotaReached(count) == count >= max_monthly_posts

\* schedule_post(post): given_id is post.id on entry (0 when it is None),
\* pid the id it holds after `if not post.id: post.id = uuid4()`.
\* This is the handler when add_job returns; SchedulePostBookingRaises is
\* the handler when it raises.
SchedulePost(given_id, pid, date, content) ==
    LET post == NewPost(pid, date, content)
        base == [BlankOp EXCEPT !.op = "schedule_post", !.id = pid,
                    !.units = 1,
                    !.pre_count = monthly_post_count,
                    !.pre_status = IF pid \in DOMAIN posts
                                   THEN posts[pid].status ELSE NoStatus,
                    !.had_job = JobExists(jobs, PostJobId(pid)),
                    !.pre_dates = RunDates(jobs, PostJobId(pid))]
    IN
    /\ IF PostQuotaReached(monthly_post_count)
       THEN /\ UNCHANGED <<posts, threads, jobs, monthly_post_count, now>>
            /\ lastOp' = [base EXCEPT !.id = given_id, !.ret = FALSE,
                              !.obj_status = post.status]
       ELSE /\ posts' = Put(posts, pid, [post EXCEPT !.status = SCHEDULED])
            /\ jobs' = add_job(jobs, PostJobId(pid), date)
            /\ monthly_post_count' = monthly_post_count + 1
            /\ UNCHANGED <<threads, now>>
            /\ lastOp' = [base EXCEPT !.ret = TRUE,
                              !.obj_status = SCHEDULED]

DoSchedulePost ==
    /\ UNCHANGED conc
    /\ \E date \in Times, content \in AcceptedContents :
           \/ \E pid \in PostIds : SchedulePost(pid, pid, date, content)
           \/ \E pid \in PostIds \ DOMAIN posts :
                  SchedulePost(0, pid, date, content)

\* -------------------------------------------------------- schedule_thread
\* (variant: the emptiness check is missing)
ThreadHasNoPosts_unchecked(thread) == FALSE

\* if not thread.posts or len(thread.posts) == 0: return False
ThreadHasNoPosts(thread) == Len(thread.posts) = 0

\* (variant: the post's check reused, the member count ignored)
ThreadQuotaExceeded_ignores_size(count, n) == count >= max_monthly_posts

\* if self.monthly_post_count + len(thread.posts) > self.max_monthly_posts
ThreadQuotaExceeded(count, n) == count + n > max_monthly_posts

\* schedule_thread(thread): thread is a freshly built XThread.
ScheduleThread(thread) ==
    LET tid    == thread.id
        date   == thread.scheduled_date
        n      == Len(thread.posts)
        base   == [BlankOp EXCEPT !.op = "schedule_thread", !.id = tid,
                      !.units = n,
                      !.pre_count = monthly_post_count,
                      !.pre_status = IF tid \in DOMAIN threads
                                     THEN threads[tid].status ELSE NoStatus,
                      !.had_job = JobExists(jobs, ThreadJobId(tid)),
                      !.pre_dates = RunDates(jobs, ThreadJobId(tid))]
    IN
    /\ IF ThreadHasNoPosts(thread)
       THEN /\ UNCHANGED <<posts, threads, jobs, monthly_post_count, now>>
            /\ lastOp' = [base EXCEPT !.ret = FALSE,
                              !.obj_status = thread.status]
       ELSE IF ThreadQuotaExceeded(monthly_post_count, n)
       THEN /\ UNCHANGED <<posts, threads, jobs, monthly_post_count, now>>
            /\ lastOp' = [base EXCEPT !.ret = FALSE,
                              !.obj_status = thread.status]
       ELSE /\ threads' = Put(threads, tid,
                              [thread EXCEPT !.status = SCHEDULED])
            /\ jobs' = add_job(jobs, ThreadJobId(tid), date)
            /\ monthly_post_count' = monthly_post_count + n
            /\ UNCHANGED <<posts, now>>
            /\ lastOp' = [base EXCEPT !.ret = TRUE,
                              !.obj_status = SCHEDULED]

\* The threads handed to schedule_thread. A refusal reads neither the
\* positions nor the date, so one thread of each length stands for all the
\* threads of that length that are refused.
ThreadInputs(tid, n) ==
    LET all == {NewThread(tid, positions, contents, date) :
                    positions \in [1..n -> Positions],
                    contents \in [1..n -> AcceptedContents], date \in Times}
        one == NewThread(tid, [i \in 1..n |-> None],
                         [i \in 1..n |-> MaxContentLength], 0)
    IN IF \/ ThreadHasNoPosts(one)
          \/ ThreadQuotaExceeded(monthly_post_count, n)
       THEN {one}
       ELSE all

DoScheduleThread ==
    /\ UNCHANGED conc
    /\ \E tid \in ThreadIds, n \in 0..MaxMembers :
           \E thread \in ThreadInputs(tid, n) : ScheduleThread(thread)

\* ---------------------------------------------------------- publish_post
\* XAPIService.publish_post: the remote id when create_tweet returned one,
\* None when the response has no id or when anything raised.
publish_post(post, outcome) ==
    IF outcome = RETURNS_ID THEN RemoteId(post.id) ELSE None

\* (variant: a call that gave no id leaves the status as it was)
publish_post_job_keeps_status(reg, pid, outcome) ==
    IF pid \notin DOMAIN reg
    THEN reg
    ELSE LET x_post_id == publish_post(reg[pid], outcome)
         IN IF x_post_id # None
            THEN [reg EXCEPT ![pid].x_post_id = x_post_id,
                             ![pid].status = PUBLISHED]
            ELSE reg

\* _publish_post_job(post_id): the registry after the callback ran.
publish_post_job(reg, pid, outcome) ==
    IF pid \notin DOMAIN reg
    THEN reg
    ELSE LET x_post_id == publish_post(reg[pid], outcome)
         IN IF x_post_id # None
            THEN [reg EXCEPT ![pid].x_post_id = x_post_id,
                             ![pid].status = PUBLISHED]
            ELSE [reg EXCEPT ![pid].status = FAILED]

\* a job is due when its run date has been reached
Due(j) == j.run_date <= now

\* (variant: a failed publish escapes the callback and takes the pending
\* triggers with it)
FirePost_failure_escapes(j, outcome) ==
    LET pid == j.id[2]
    IN
    /\ j.id[1] = "post"
    /\ Due(j)
    /\ jobs' = IF outcome = RETURNS_ID THEN jobs \ {j} ELSE {}
    /\ posts' = publish_post_job(posts, pid, outcome)
    /\ UNCHANGED <<threads, monthly_post_count, now>>
    /\ lastOp' = [BlankOp EXCEPT !.op = "fire_post", !.id = pid,
                     !.units = 1, !.pre_count = monthly_post_count,
                     !.pre_status = IF pid \in DOMAIN posts
                                    THEN posts[pid].status ELSE NoStatus,
                     !.had_job = TRUE, !.pre_dates = {j.run_date},
                     !.calls = IF pid \in DOMAIN posts
                               THEN <<[member |-> 0, reply_to |-> None,
                                       outcome |-> outcome]>>
                               ELSE <<>>]

\* The dispatcher takes a due post job out of the store and runs its callback.
FirePost(j, outcome) ==
    LET pid == j.id[2]
    IN
    /\ j.id[1] = "post"
    /\ Due(j)
    /\ jobs' = jobs \ {j}
    /\ posts' = publish_post_job(posts, pid, outcome)
    /\ UNCHANGED <<threads, monthly_post_count, now>>
    /\ lastOp' = [BlankOp EXCEPT !.op = "fire_post", !.id = pid,
                     !.units = 1, !.pre_count = monthly_post_count,
                     !.pre_status = IF pid \in DOMAIN posts
                                    THEN posts[pid].status ELSE NoStatus,
                     !.had_job = TRUE, !.pre_dates = {j.run_date},
                     !.calls = IF pid \in DOMAIN posts
                               THEN <<[member |-> 0, reply_to |-> None,
                                       outcome |-> outcome]>>
                               ELSE <<>>]

DoFirePost ==
    /\ UNCHANGED conc
    /\ \E j \in jobs, outcome \in Outcomes : FirePost(j, outcome)

\* -------------------------------------------------------- publish_thread
\* key=lambda p: p.thread_position or 0
PosKey(p) == IF p.thread_position = <<>> THEN 0 ELSE p.thread_position[1]

\* Member m goes behind every member whose key is not larger than its own.
RECURSIVE InsertSorted(_, _, _)
InsertSorted(ps, order, m) ==
    IF order = <<>>
    THEN <<m>>
    ELSE IF PosKey(ps[m]) < PosKey(ps[Head(order)])
         THEN <<m>> \o order
         ELSE <<Head(order)>> \o InsertSorted(ps, Tail(order), m)

RECURSIVE SortedUpTo(_, _)
SortedUpTo(ps, n) ==
    IF n = 0 THEN <<>> ELSE InsertSorted(ps, SortedUpTo(ps, n - 1), n)

\* (variant: the member list is walked as given)
sorted_posts_unsorted(ps) == [i \in 1..Len(ps) |-> i]

\* posts = sorted(thread.posts, key=...): the member indices in the order
\* of the sorted list (Python's sort is stable).
sorted_posts(ps) == SortedUpTo(ps, Len(ps))

\* What publish_thread returns, the member list it leaves and the publisher
\* calls it made.
ThreadResult(ok, ps, calls) == [ok |-> ok, posts |-> ps, calls |-> calls]

\* (variant: the member is marked but the id is not kept)
MarkPublished_drops_id(ps, m, x_post_id) ==
    [ps EXCEPT ![m].status = PUBLISHED]

\* A member whose call returned a remote id.
MarkPublished(ps, m, x_post_id) ==
    [ps EXCEPT ![m].x_post_id = x_post_id, ![m].status = PUBLISHED]

\* (variant: the call that gave no id is made a second time before the
\* loop is left)
ReplyFailed_retries(ps, calls) ==
    ThreadResult(FALSE, ps, Append(calls, calls[Len(calls)]))

\* Leaving the reply loop at the first member whose call gave no id.
ReplyFailed(ps, calls) == ThreadResult(FALSE, ps, calls)

\* (variant: a failed reply is skipped and the loop goes on)
RECURSIVE PublishReplies_goes_on(_, _, _, _, _, _)
PublishReplies_goes_on(ps, order, i, prev_post_id, res, calls) ==
    IF i > Len(order)
    THEN ThreadResult(\A c \in 1..Len(calls) : calls[c].outcome = RETURNS_ID,
                      ps, calls)
    ELSE LET m    == order[i]
             call == [member |-> m, reply_to |-> prev_post_id,
                      outcome |-> res[m]]
         IN IF res[m] = RETURNS_ID
            THEN PublishReplies_goes_on(MarkPublished(ps, m, RemoteId(ps[m].id)),
                                        order, i + 1, RemoteId(ps[m].id),
                                        res, Append(calls, call))
            ELSE PublishReplies_goes_on(ps, order, i + 1, prev_post_id, res,
                                        Append(calls, call))

\* for post in posts[1:]: publish as a reply to prev_post_id
RECURSIVE PublishReplies(_, _, _, _, _, _)
PublishReplies(ps, order, i, prev_post_id, res, calls) ==
    IF i > Len(order)
    THEN ThreadResult(TRUE, ps, calls)
    ELSE LET m    == order[i]
             call == [member |-> m, reply_to |-> prev_post_id,
                      outcome |-> res[m]]
         IN IF res[m] = RETURNS_ID
            THEN PublishReplies(MarkPublished(ps, m, RemoteId(ps[m].id)),
                                order, i + 1, RemoteId(ps[m].id), res,
                                Append(calls, call))
            ELSE ReplyFailed(ps, Append(calls, call))

\* (variant: the first reply is sent without the id of the first post)
publish_thread_unlinked(thread, res) ==
    IF Len(thread.posts) = 0
    THEN ThreadResult(FALSE, thread.posts, <<>>)
    ELSE LET order         == sorted_posts(thread.posts)
             first         == order[1]
             first_post_id == publish_post(thread.posts[first], res[first])
             call          == [member |-> first, reply_to |-> None,
                               outcome |-> res[first]]
         IN IF first_post_id = None
            THEN ThreadResult(FALSE, thread.posts, <<call>>)
            ELSE PublishReplies(
                     MarkPublished(thread.posts, first, first_post_id),
                     order, 2, None, res, <<call>>)

\* XAPIService.publish_thread(thread); res[m] is what create_tweet does when
\* it is called for member m.
publish_thread(thread, res) ==
    IF Len(thread.posts) = 0
    THEN ThreadResult(FALSE, thread.posts, <<>>)
    ELSE LET order         == sorted_posts(thread.posts)
             first         == order[1]
             first_post_id == publish_post(thread.posts[first], res[first])
             call          == [member |-> first, reply_to |-> None,
                               outcome |-> res[first]]
         IN IF first_post_id = None
            THEN ThreadResult(FALSE, thread.posts, <<call>>)
            ELSE PublishReplies(
                     MarkPublished(thread.posts, first, first_post_id),
                     order, 2, first_post_id, res, <<call>>)

\* (variant: the result of publish_thread is ignored)
ThreadStatusAfter_ignores_result(success) == PUBLISHED

\* thread.status after publish_thread returned success
ThreadStatusAfter(success) == IF success THEN PUBLISHED ELSE FAILED

\* _publish_thread_job(thread_id): the registry after the callback ran.
publish_thread_job(reg, tid, res) ==
    IF tid \notin DOMAIN reg
    THEN reg
    ELSE LET r == publish_thread(reg[tid], res)
         IN [reg EXCEPT ![tid].posts = r.posts,
                        ![tid].status = ThreadStatusAfter(r.ok)]

\* The dispatcher takes a due thread job out of the store and runs its
\* callback.
FireThread(j, res) ==
    LET tid == j.id[2]
    IN
    /\ j.id[1] = "thread"
    /\ Due(j)
    /\ jobs' = jobs \ {j}
    /\ threads' = publish_thread_job(threads, tid, res)
    /\ UNCHANGED <<posts, monthly_post_count, now>>
    /\ lastOp' = [BlankOp EXCEPT !.op = "fire_thread", !.id = tid,
                     !.units = IF tid \in DOMAIN threads
                               THEN Len(threads[tid].posts) ELSE 0,
                     !.pre_count = monthly_post_count,
                     !.pre_status = IF tid \in DOMAIN threads
                                    THEN threads[tid].status ELSE NoStatus,
                     !.had_job = TRUE, !.pre_dates = {j.run_date},
                     !.calls = IF tid \in DOMAIN threads
                               THEN publish_thread(threads[tid], res).calls
                               ELSE <<>>]

DoFireThread ==
    /\ UNCHANGED conc
    /\ \E j \in jobs :
           /\ j.id[1] = "thread"
           /\ j.id[2] \in DOMAIN threads
           /\ \E res \in [1..Len(threads[j.id[2]].posts) -> Outcomes] :
                  FireThread(j, res)

\* ------------------------------------------------------------ missed jobs
\* BackgroundScheduler(jobstores, executors, timezone) sets no job_defaults,
\* so every job has APScheduler's default misfire_grace_time of one second:
\* a job the dispatcher gets to later than that after its run date (a run
\* date already past when it was booked, or all workers busy) is reported
\* as missed and leaves the store without its callback being run. The clock
\* of the model is coarser than the grace time, so a job whose run date lies
\* before now may be run or may be missed.
Misfire(j) ==
    /\ j.run_date < now
    /\ jobs' = jobs \ {j}
    /\ UNCHANGED <<posts, threads, monthly_post_count, now>>
    /\ lastOp' = [BlankOp EXCEPT !.op = "misfire", !.id = j.id[2],
                     !.pre_count = monthly_post_count,
                     !.had_job = TRUE, !.pre_dates = {j.run_date}]

DoMisfire ==
    /\ UNCHANGED conc
    /\ \E j \in jobs : Misfire(j)

\* -------------------------------------------------------------- get_post
\* get_post(post_id) / get_thread(thread_id): dict.get, None when absent
get_post(pid) == IF pid \in DOMAIN posts THEN posts[pid] ELSE None

get_thread(tid) == IF tid \in DOMAIN threads THEN threads[tid] ELSE None

\* ------------------------------------------------------------ cancel_post
\* (variant: the quota is released before the job is looked up)
CancelPost_releases_first(pid) ==
    /\ lastOp' = [BlankOp EXCEPT !.op = "cancel_post", !.id = pid,
                     !.units = 1, !.pre_count = monthly_post_count,
                     !.pre_status = IF pid \in DOMAIN posts
                                    THEN posts[pid].status ELSE NoStatus,
                     !.had_job = JobExists(jobs, PostJobId(pid))]
    /\ monthly_post_count' = IF pid \in DOMAIN posts
                             THEN monthly_post_count - 1
                             ELSE monthly_post_count
    /\ jobs' = remove_job(jobs, PostJobId(pid))
    /\ UNCHANGED <<posts, threads, now>>

\* (variant: a cancelled post is taken out of the registry)
CancelPost_deletes(pid) ==
    /\ lastOp' = [BlankOp EXCEPT !.op = "cancel_post", !.id = pid,
                     !.units = 1, !.pre_count = monthly_post_count,
                     !.pre_status = IF pid \in DOMAIN posts
                                    THEN posts[pid].status ELSE NoStatus,
                     !.had_job = JobExists(jobs, PostJobId(pid))]
    /\ posts' = IF JobExists(jobs, PostJobId(pid))
                THEN [x \in (DOMAIN posts) \ {pid} |-> posts[x]]
                ELSE posts
    /\ jobs' = remove_job(jobs, PostJobId(pid))
    /\ UNCHANGED <<threads, monthly_post_count, now>>

\* cancel_post(post_id)
CancelPost(pid) ==
    LET base == [BlankOp EXCEPT !.op = "cancel_post", !.id = pid,
                    !.units = 1, !.pre_count = monthly_post_count,
                    !.pre_status = IF pid \in DOMAIN posts
                                   THEN posts[pid].status ELSE NoStatus,
                    !.had_job = JobExists(jobs, PostJobId(pid))]
    IN
    IF pid \notin DOMAIN posts
    THEN /\ UNCHANGED <<posts, threads, jobs, monthly_post_count, now>>
         /\ lastOp' = [base EXCEPT !.ret = FALSE]
    ELSE IF ~JobExists(jobs, PostJobId(pid))
    THEN \* remove_job raises JobLookupError, caught by the except
         /\ UNCHANGED <<posts, threads, jobs, monthly_post_count, now>>
         /\ lastOp' = [base EXCEPT !.ret = FALSE]
    ELSE /\ jobs' = remove_job(jobs, PostJobId(pid))
         /\ IF HasMember(CANCELLED)
            THEN /\ posts' = [posts EXCEPT ![pid].status = CANCELLED]
                 /\ monthly_post_count' = monthly_post_count - 1
                 /\ lastOp' = [base EXCEPT !.ret = TRUE]
            ELSE \* PostStatus.CANCELLED raises AttributeError, caught
                 /\ UNCHANGED <<posts, monthly_post_count>>
                 /\ lastOp' = [base EXCEPT !.ret = FALSE]
         /\ UNCHANGED <<threads, now>>

DoCancelPost ==
    /\ UNCHANGED conc
    /\ \E pid \in PostIds : CancelPost(pid)

\* ---------------------------------------------------------- cancel_thread
\* (variant: the member count is released whether or not a job was found)
CancelThread_releases_always(tid) ==
    /\ lastOp' = [BlankOp EXCEPT !.op = "cancel_thread", !.id = tid,
                     !.units = IF tid \in DOMAIN threads
                               THEN Len(threads[tid].posts) ELSE 0,
                     !.pre_count = monthly_post_count,
                     !.pre_status = IF tid \in DOMAIN threads
                                    THEN threads[tid].status ELSE NoStatus,
                     !.had_job = JobExists(jobs, ThreadJobId(tid))]
    /\ monthly_post_count' = IF tid \in DOMAIN threads
                             THEN monthly_post_count - Len(threads[tid].posts)
                             ELSE monthly_post_count
    /\ jobs' = remove_job(jobs, ThreadJobId(tid))
    /\ UNCHANGED <<posts, threads, now>>

\* cancel_thread(thread_id)
CancelThread(tid) ==
    LET base == [BlankOp EXCEPT !.op = "cancel_thread", !.id = tid,
                    !.units = IF tid \in DOMAIN threads
                              THEN Len(threads[tid].posts) ELSE 0,
                    !.pre_count = monthly_post_count,
                    !.pre_status = IF tid \in DOMAIN threads
                                   THEN threads[tid].status ELSE NoStatus,
                    !.had_job = JobExists(jobs, ThreadJobId(tid))]
    IN
    IF tid \notin DOMAIN threads
    THEN /\ UNCHANGED <<posts, threads, jobs, monthly_post_count, now>>
         /\ lastOp' = [base EXCEPT !.ret = FALSE]
    ELSE IF ~JobExists(jobs, ThreadJobId(tid))
    THEN /\ UNCHANGED <<posts, threads, jobs, monthly_post_count, now>>
         /\ lastOp' = [base EXCEPT !.ret = FALSE]
    ELSE /\ jobs' = remove_job(jobs, ThreadJobId(tid))
         /\ IF HasMember(CANCELLED)
            THEN /\ threads' = [threads EXCEPT ![tid].status = CANCELLED]
                 /\ monthly_post_count' =
                        monthly_post_count - Len(threads[tid].posts)
                 /\ lastOp' = [base EXCEPT !.ret = TRUE]
            ELSE /\ UNCHANGED <<threads, monthly_post_count>>
                 /\ lastOp' = [base EXCEPT !.ret = FALSE]
         /\ UNCHANGED <<posts, now>>

DoCancelThread ==
    /\ UNCHANGED conc
    /\ \E tid \in ThreadIds : CancelThread(tid)

\* ------------------------------------------------------------------ clock
Tick ==
    /\ now + 1 \in Times
    /\ now' = now + 1
    /\ lastOp' = [BlankOp EXCEPT !.op = "tick"]
    /\ UNCHANGED <<posts, threads, jobs, monthly_post_count>>
    /\ UNCHANGED conc

Next ==
    \/ DoSchedulePost
    \/ DoScheduleThread
    \/ DoFirePost
    \/ DoCreateXPostRaises
    \/ DoFireThread
    \/ DoMisfire
    \/ DoCancelPost
    \/ DoCancelThread
    \/ Tick

Spec == Init /\ [][Next]_vars

\* ------------------------------------------------ a booking that raises
\* schedule_post(post) when scheduler.add_job raises (a run date that cannot
\* be converted to a UTC timestamp does): the quota check and the registry
\* write have run, the except clause returns False.
SchedulePostBookingRaises(given_id, pid, date, content) ==
    LET post == NewPost(pid, date, content)
        base == [BlankOp EXCEPT !.op = "schedule_post", !.id = pid,
                    !.units = 1,
                    !.pre_count = monthly_post_count,
                    !.pre_status = IF pid \in DOMAIN posts
                                   THEN posts[pid].status ELSE NoStatus,
                    !.had_job = JobExists(jobs, PostJobId(pid)),
                    !.pre_dates = RunDates(jobs, PostJobId(pid))]
    IN
    /\ ~PostQuotaReached(monthly_post_count)
    /\ posts' = Put(posts, pid, post)
    /\ UNCHANGED <<threads, jobs, monthly_post_count, now>>
    /\ lastOp' = [base EXCEPT !.ret = FALSE, !.obj_status = post.status,
                      !.raised = TRUE]

DoSchedulePostBookingRaises ==
    /\ UNCHANGED conc
    /\ \E date \in Times, content \in AcceptedContents :
           \/ \E pid \in PostIds :
                  SchedulePostBookingRaises(pid, pid, date, content)
           \/ \E pid \in PostIds \ DOMAIN posts :
                  SchedulePostBookingRaises(0, pid, date, content)

\* schedule_thread(thread) when scheduler.add_job raises.
ScheduleThreadBookingRaises(thread) ==
    LET tid    == thread.id
        n      == Len(thread.posts)
        base   == [BlankOp EXCEPT !.op = "schedule_thread", !.id = tid,
                      !.units = n,
                      !.pre_count = monthly_post_count,
                      !.pre_status = IF tid \in DOMAIN threads
                                     THEN threads[tid].status ELSE NoStatus,
                      !.had_job = JobExists(jobs, ThreadJobId(tid)),
                      !.pre_dates = RunDates(jobs, ThreadJobId(tid))]
    IN
    /\ ~ThreadHasNoPosts(thread)
    /\ ~ThreadQuotaExceeded(monthly_post_count, n)
    /\ threads' = Put(threads, tid, thread)
    /\ UNCHANGED <<posts, jobs, monthly_post_count, now>>
    /\ lastOp' = [base EXCEPT !.ret = FALSE, !.obj_status = thread.status,
                      !.raised = TRUE]

DoScheduleThreadBookingRaises ==
    /\ UNCHANGED conc
    /\ \E tid \in ThreadIds, n \in 1..MaxMembers :
           \E thread \in ThreadInputs(tid, n) :
               ScheduleThreadBookingRaises(thread)

NextBooking ==
    \/ Next
    \/ DoSchedulePostBookingRaises
    \/ DoScheduleThreadBookingRaises

SpecBooking == Init /\ [][NextBooking]_vars

\* ------------------------------------------- operations that interleave
\* Nothing in SchedulerService takes a lock, so a schedule_post call of one
\* caller can be overtaken, between any two of its statements, by another
\* caller's call and by the dispatcher's workers. schedule_post is taken
\* apart at its accesses to the shared state: the quota check, the registry
\* write, the booking, the status write and the counter update. A firing is
\* taken apart where the publisher is called. cancel_post, cancel_thread and
\* schedule_thread run as one step each. The clock stands still: what is
\* looked at is the calls that overlap at one instant.
\*
\* A record of admitting and of firing holds a reference to a post object;
\* attached says whether that object is the one the registry holds under
\* its id. A write to an object that is not attached is not seen by anyone.
Detach(adm, pid, c) ==
    [x \in Callers |->
        IF x # c /\ adm[x].pc # "idle" /\ adm[x].pid = pid
        THEN [adm[x] EXCEPT !.attached = FALSE]
        ELSE adm[x]]

DetachFiring(fs, kind, id) ==
    {IF f.kind = kind /\ f.id = id THEN [f EXCEPT !.attached = FALSE] ELSE f :
         f \in fs}

\* if self.monthly_post_count >= self.max_monthly_posts: return False
CheckQuota(c, pid, date) ==
    /\ admitting[c] = Idle
    /\ IF PostQuotaReached(monthly_post_count)
       THEN /\ UNCHANGED admitting
            /\ lastOp' = [BlankOp EXCEPT !.op = "schedule_post", !.id = pid,
                              !.units = 1, !.ret = FALSE]
       ELSE /\ admitting' = [admitting EXCEPT ![c] =
                                 [pc |-> "checked", pid |-> pid,
                                  date |-> date, attached |-> FALSE]]
            /\ lastOp' = [BlankOp EXCEPT !.op = "check_quota"]
    /\ UNCHANGED <<posts, threads, jobs, monthly_post_count, now, firing,
                 published>>

\* The callers whose calls interleave hand in posts of the same id, with a
\* run date that is due at once.
DoCheckQuota == \E c \in Callers : CheckQuota(c, 1, now)

\* self.posts[post.id] = post
StorePost(c) ==
    LET a == admitting[c]
    IN
    /\ a.pc = "checked"
    /\ posts' = Put(posts, a.pid, NewPost(a.pid, a.date, MaxContentLength))
    /\ admitting' = [Detach(admitting, a.pid, c) EXCEPT
                         ![c].pc = "stored", ![c].attached = TRUE]
    /\ firing' = DetachFiring(firing, "post", a.pid)
    /\ lastOp' = [BlankOp EXCEPT !.op = "store_post"]
    /\ UNCHANGED <<threads, jobs, monthly_post_count, now,
                 published>>

DoStorePost == \E c \in Callers : StorePost(c)

\* self.scheduler.add_job(..., id=f"post_{post.id}", replace_existing=True)
BookTrigger(c) ==
    LET a == admitting[c]
    IN
    /\ a.pc = "stored"
    /\ jobs' = add_job(jobs, PostJobId(a.pid), a.date)
    /\ admitting' = [admitting EXCEPT ![c].pc = "booked"]
    /\ lastOp' = [BlankOp EXCEPT !.op = "book_trigger"]
    /\ UNCHANGED <<posts, threads, monthly_post_count, now, firing,
                 published>>

DoBookTrigger == \E c \in Callers : BookTrigger(c)

\* post.status = PostStatus.SCHEDULED
MarkScheduled(c) ==
    LET a == admitting[c]
    IN
    /\ a.pc = "booked"
    /\ posts' = IF a.attached
                THEN [posts EXCEPT ![a.pid].status = SCHEDULED]
                ELSE posts
    /\ admitting' = [admitting EXCEPT ![c].pc = "marked"]
    /\ lastOp' = [BlankOp EXCEPT !.op = "mark_scheduled", !.id = a.pid]
    /\ UNCHANGED <<threads, jobs, monthly_post_count, now, firing,
                 published>>

DoMarkScheduled == \E c \in Callers : MarkScheduled(c)

\* self.monthly_post_count += 1; return True
CountUp(c) ==
    LET a == admitting[c]
    IN
    /\ a.pc = "marked"
    /\ monthly_post_count' = monthly_post_count + 1
    /\ admitting' = [admitting EXCEPT ![c] = Idle]
    /\ lastOp' = [BlankOp EXCEPT !.op = "schedule_post", !.id = a.pid,
                     !.units = 1, !.ret = TRUE]
    /\ UNCHANGED <<posts, threads, jobs, now, firing,
                 published>>

DoCountUp == \E c \in Callers : CountUp(c)

\* schedule_thread as one step; the thread it registers takes the place of
\* the object a firing in progress may hold.
ScheduleThreadStep(thread) ==
    LET tid == thread.id
        n   == Len(thread.posts)
    IN
    /\ IF ThreadHasNoPosts(thread) \/ ThreadQuotaExceeded(monthly_post_count, n)
       THEN /\ UNCHANGED <<threads, jobs, monthly_post_count, firing>>
            /\ lastOp' = [BlankOp EXCEPT !.op = "schedule_thread",
                              !.id = tid, !.units = n, !.ret = FALSE]
       ELSE /\ threads' = Put(threads, tid,
                              [thread EXCEPT !.status = SCHEDULED])
            /\ jobs' = add_job(jobs, ThreadJobId(tid), thread.scheduled_date)
            /\ monthly_post_count' = monthly_post_count + n
            /\ firing' = DetachFiring(firing, "thread", tid)
            /\ lastOp' = [BlankOp EXCEPT !.op = "schedule_thread",
                              !.id = tid, !.units = n, !.ret = TRUE]
    /\ UNCHANGED <<posts, now, admitting,
                 published>>

\* the threads handed in while calls interleave: one or two members, no
\* positions
DoScheduleThreadStep ==
    \E tid \in ThreadIds, n \in {1, 2} :
        ScheduleThreadStep(NewThread(tid, [i \in 1..n |-> None],
                                     [i \in 1..n |-> MaxContentLength], now))

\* executors = {"default": ThreadPoolExecutor(20)}
MaxWorkers == 20

\* (variant: one worker for all the jobs)
WorkerFree_single(fs) == fs = {}

\* a job handed to the pool is run when one of its workers is not held by a
\* firing in progress
WorkerFree(fs) == Cardinality(fs) < MaxWorkers

\* The dispatcher takes a due post job out of the store and hands it to a
\* worker, which looks the post up and calls the publisher.
StartFirePost(j) ==
    /\ j.id[1] = "post"
    /\ Due(j)
    /\ WorkerFree(firing)
    /\ j.id[2] \in DOMAIN posts
    /\ jobs' = jobs \ {j}
    /\ firing' = firing \cup {[kind |-> "post", id |-> j.id[2],
                                attached |-> TRUE]}
    /\ lastOp' = [BlankOp EXCEPT !.op = "start_fire_post", !.id = j.id[2]]
    /\ UNCHANGED <<posts, threads, monthly_post_count, now, admitting,
                 published>>

DoStartFirePost == \E j \in jobs : StartFirePost(j)

\* The publisher call returns and _publish_post_job writes the status.
FinishFirePost(f, outcome) ==
    /\ f.kind = "post"
    /\ posts' = IF f.attached
                THEN publish_post_job(posts, f.id, outcome)
                ELSE posts
    /\ firing' = firing \ {f}
    /\ lastOp' = [BlankOp EXCEPT !.op = "finish_fire_post", !.id = f.id]
    /\ UNCHANGED <<threads, jobs, monthly_post_count, now, admitting,
                 published>>

DoFinishFirePost ==
    \E f \in firing, outcome \in Outcomes : FinishFirePost(f, outcome)

\* The same for a thread job: the worker is inside publish_thread from the
\* first publisher call to the last.
StartFireThread(j) ==
    /\ j.id[1] = "thread"
    /\ Due(j)
    /\ WorkerFree(firing)
    /\ j.id[2] \in DOMAIN threads
    /\ jobs' = jobs \ {j}
    /\ firing' = firing \cup {[kind |-> "thread", id |-> j.id[2],
                                attached |-> TRUE]}
    /\ lastOp' = [BlankOp EXCEPT !.op = "start_fire_thread",
                     !.id = j.id[2]]
    /\ UNCHANGED <<posts, threads, monthly_post_count, now, admitting,
                 published>>

DoStartFireThread == \E j \in jobs : StartFireThread(j)

FinishFireThread(f, res) ==
    /\ f.kind = "thread"
    /\ threads' = IF f.attached
                  THEN publish_thread_job(threads, f.id, res)
                  ELSE threads
    /\ firing' = firing \ {f}
    /\ lastOp' = [BlankOp EXCEPT !.op = "finish_fire_thread", !.id = f.id]
    /\ UNCHANGED <<posts, jobs, monthly_post_count, now, admitting,
                 published>>

DoFinishFireThread ==
    \E f \in firing :
        /\ f.kind = "thread"
        /\ \E res \in [1..Len(threads[f.id].posts) -> Outcomes] :
               FinishFireThread(f, res)

NextConc ==
    \/ DoCheckQuota
    \/ DoStorePost
    \/ DoBookTrigger
    \/ DoMarkScheduled
    \/ DoCountUp
    \/ DoScheduleThreadStep
    \/ DoStartFirePost
    \/ DoFinishFirePost
    \/ DoStartFireThread
    \/ DoFinishFireThread
    \/ DoCancelPost
    \/ DoCancelThread

SpecConc == Init /\ [][NextConc]_vars

\* ------------------------------------------ what the publisher has seen
\* The external service keeps what it was sent: published collects the
\* identifiers of the units for which create_tweet returned an id. The
\* operations are those of Spec; the firings add to the record.
Accepted(kind, id, calls, ps) ==
    IF kind = "post"
    THEN {<<"post", id>> : i \in {k \in 1..Len(calls) :
                                     calls[k].outcome = RETURNS_ID}}
    ELSE {<<"member", ps[calls[i].member].id>> :
              i \in {k \in 1..Len(calls) : calls[k].outcome = RETURNS_ID}}

DoFirePostSeen ==
    /\ UNCHANGED <<admitting, firing>>
    /\ \E j \in jobs, outcome \in Outcomes :
           /\ FirePost(j, outcome)
           /\ published' = published \cup
                  Accepted("post", j.id[2], lastOp'.calls, <<>>)

DoFireThreadSeen ==
    /\ UNCHANGED <<admitting, firing>>
    /\ \E j \in jobs :
           /\ j.id[1] = "thread"
           /\ j.id[2] \in DOMAIN threads
           /\ \E res \in [1..Len(threads[j.id[2]].posts) -> Outcomes] :
                  /\ FireThread(j, res)
                  /\ published' = published \cup
                         Accepted("thread", j.id[2], lastOp'.calls,
                                  threads[j.id[2]].posts)

NextPub ==
    \/ DoCreateXPostRaises
    \/ DoSchedulePost
    \/ DoScheduleThread
    \/ DoFirePostSeen
    \/ DoFireThreadSeen
    \/ DoMisfire
    \/ DoCancelPost
    \/ DoCancelThread
    \/ Tick

SpecPub == Init /\ [][NextPub]_vars

\* ------------------------------------------------------ a fair dispatcher
\* The operations of Spec under the scheduling of the BackgroundScheduler:
\* its thread wakes up at the next run date, so the clock advances while it
\* can, and a trigger that stays due is dispatched; publish_post and
\* publish_thread return (one firing is one step).
SpecFair ==
    /\ Init /\ [][Next]_vars
    /\ WF_vars(Tick)
    /\ WF_vars(DoFirePost)
    /\ WF_vars(DoFireThread)

\* ================================================================ claims
ScheduleOps == {"schedule_post", "schedule_thread"}

\* C1: after any sequence of schedule, cancel and firing operations the
\* consumed quota monthly_post_count never exceeds max_monthly_posts.
C1_QuotaNeverExceedsCeiling == monthly_post_count <= max_monthly_posts

\* an admission has just filled the quota up to the ceiling
C1_Witness ==
    /\ lastOp.op \in ScheduleOps
    /\ lastOp.ret
    /\ lastOp.pre_count < max_monthly_posts
    /\ monthly_post_count = max_monthly_posts

\* C2: schedule_post / schedule_thread called with consumed + units above
\* the ceiling returns False and leaves the counter, both registries, the
\* pending triggers and the status of the entity handed in unchanged.
C2_RefusedAdmissionChangesNothing ==
    [][(/\ lastOp'.op \in ScheduleOps
        /\ monthly_post_count + lastOp'.units > max_monthly_posts)
       => (/\ lastOp'.ret = FALSE
           /\ lastOp'.obj_status = PENDING
           /\ UNCHANGED <<monthly_post_count, posts, threads, jobs>>)]_vars

\* a thread was refused although the quota was not yet used up
C2_Witness ==
    /\ lastOp.op = "schedule_thread"
    /\ lastOp.pre_count < max_monthly_posts
    /\ lastOp.pre_count + lastOp.units > max_monthly_posts
    /\ lastOp.ret = FALSE

\* C3: cancel_post on a SCHEDULED post whose trigger is pending returns
\* True, removes the trigger, sets the status to CANCELLED and takes exactly
\* one unit off the consumed quota.
C3_CancelScheduledPost ==
    (/\ lastOp.op = "cancel_post"
     /\ lastOp.pre_status = SCHEDULED
     /\ lastOp.had_job)
    => (/\ lastOp.ret = TRUE
        /\ ~JobExists(jobs, PostJobId(lastOp.id))
        /\ posts[lastOp.id].status = CANCELLED
        /\ monthly_post_count = lastOp.pre_count - 1)

\* C4: cancel_thread on a SCHEDULED thread whose trigger is pending returns
\* True, sets the status to CANCELLED and takes the thread's member count off
\* the consumed quota.
C4_CancelScheduledThread ==
    (/\ lastOp.op = "cancel_thread"
     /\ lastOp.pre_status = SCHEDULED
     /\ lastOp.had_job)
    => (/\ lastOp.ret = TRUE
        /\ threads[lastOp.id].status = CANCELLED
        /\ monthly_post_count = lastOp.pre_count - lastOp.units)

\* C5: cancel_post returns False for an identifier that is not registered
\* and for a post that is PUBLISHED or FAILED, and leaves the post's status,
\* its remote id and the quota counter as they were.
C5_CancelUnknownOrFired ==
    [][(/\ lastOp'.op = "cancel_post"
        /\ \/ lastOp'.id \notin DOMAIN posts
           \/ /\ lastOp'.id \in DOMAIN posts
              /\ posts[lastOp'.id].status \in {PUBLISHED, FAILED})
       => (/\ lastOp'.ret = FALSE
           /\ posts' = posts
           /\ monthly_post_count' = monthly_post_count)]_vars

\* cancel_post was refused for a post that had been fired
C5_Witness ==
    /\ lastOp.op = "cancel_post"
    /\ lastOp.pre_status \in {PUBLISHED, FAILED}
    /\ ~lastOp.had_job
    /\ lastOp.ret = FALSE

\* C6: in a thread firing the publisher is called for the members in
\* ascending thread_position order (a missing position counts as 0), members
\* of equal position in the order of the list handed in at admission.
C6_CallsInPositionOrder ==
    lastOp.op = "fire_thread" =>
        LET ps == threads[lastOp.id].posts
            c  == lastOp.calls
        IN \A i, j \in 1..Len(c) :
               i < j =>
                   \/ PosKey(ps[c[i].member]) < PosKey(ps[c[j].member])
                   \/ /\ PosKey(ps[c[i].member]) = PosKey(ps[c[j].member])
                      /\ c[i].member < c[j].member

\* a thread admitted with its members out of order was published in full
C6_Witness ==
    /\ lastOp.op = "fire_thread"
    /\ Len(lastOp.calls) = 3
    /\ LET ps == threads[lastOp.id].posts
       IN /\ PosKey(ps[1]) > PosKey(ps[2])
          /\ PosKey(ps[2]) = PosKey(ps[3])

\* every member of the thread has a publisher call that returned an id
AllMembersSucceeded(t, c) ==
    \A m \in 1..Len(t.posts) :
        \E i \in 1..Len(c) : c[i].member = m /\ c[i].outcome = RETURNS_ID

\* C7: after a thread's firing the thread is PUBLISHED iff the publisher
\* call succeeded for every member, and FAILED in every other outcome.
C7_ThreadPublishedIffAllSucceed ==
    lastOp.op = "fire_thread" =>
        LET t == threads[lastOp.id]
        IN /\ t.status = PUBLISHED <=> AllMembersSucceeded(t, lastOp.calls)
           /\ ~AllMembersSucceeded(t, lastOp.calls) => t.status = FAILED

\* a three-member thread was published in full
C7_Witness ==
    /\ lastOp.op = "fire_thread"
    /\ Len(threads[lastOp.id].posts) = 3
    /\ threads[lastOp.id].status = PUBLISHED

\* the sorted index of the first call of a firing that returned no id
\* (0 when every call returned one)
FirstFailure(c) ==
    IF \E i \in 1..Len(c) : c[i].outcome # RETURNS_ID
    THEN CHOOSE i \in 1..Len(c) :
             /\ c[i].outcome # RETURNS_ID
             /\ \A h \in 1..(i - 1) : c[h].outcome = RETURNS_ID
    ELSE 0

\* C8: when the member at sorted index k is the first whose call fails, the
\* members before k are PUBLISHED with the id their call returned, the
\* publisher is not called for any member after k, the members from k on
\* have no remote id and those after k stay unpublished, and the thread is
\* FAILED.
C8_FirstFailureAborts ==
    (lastOp.op = "fire_thread" /\ FirstFailure(lastOp.calls) > 0) =>
        LET t     == threads[lastOp.id]
            c     == lastOp.calls
            k     == FirstFailure(c)
            order == sorted_posts(t.posts)
        IN /\ Len(c) = k
           /\ \A i \in 1..k : c[i].member = order[i]
           /\ \A i \in 1..(k - 1) :
                  /\ t.posts[order[i]].status = PUBLISHED
                  /\ t.posts[order[i]].x_post_id =
                         RemoteId(t.posts[order[i]].id)
           /\ t.posts[order[k]].x_post_id = None
           /\ t.posts[order[k]].status # PUBLISHED
           /\ \A i \in (k + 1)..Len(order) :
                  /\ t.posts[order[i]].status = PENDING
                  /\ t.posts[order[i]].x_post_id = None
           /\ t.status = FAILED

\* the second of three members failed
C8_Witness ==
    /\ lastOp.op = "fire_thread"
    /\ Len(threads[lastOp.id].posts) = 3
    /\ FirstFailure(lastOp.calls) = 2

PostJobs(pid) == {j \in jobs : j.id = PostJobId(pid)}

\* C9: schedule_post for an identifier whose trigger is still pending
\* replaces the trigger: one trigger is pending for the identifier, at the
\* new run date only, and a firing calls the publisher once, at the run date
\* booked last, and leaves no trigger behind.
C9_RescheduleReplacesTrigger ==
    /\ \A pid \in DOMAIN posts :
           /\ Cardinality(PostJobs(pid)) <= 1
           /\ \A j \in PostJobs(pid) :
                  j.run_date = posts[pid].scheduled_date
    /\ (lastOp.op = "schedule_post" /\ lastOp.ret /\ lastOp.had_job) =>
           Cardinality(PostJobs(lastOp.id)) = 1
    /\ lastOp.op = "fire_post" =>
           /\ PostJobs(lastOp.id) = {}
           /\ Len(lastOp.calls) = 1
           /\ lastOp.pre_dates = {posts[lastOp.id].scheduled_date}

\* a pending post was booked again for another run date
C9_Witness ==
    /\ lastOp.op = "schedule_post"
    /\ lastOp.ret
    /\ lastOp.had_job
    /\ posts[lastOp.id].scheduled_date \notin lastOp.pre_dates

\* C10: schedule_thread with a thread of zero members returns False: the
\* registry, the triggers and the quota counter stay as they were and the
\* thread stays PENDING.
C10_EmptyThreadRefused ==
    [][(lastOp'.op = "schedule_thread" /\ lastOp'.units = 0)
       => (/\ lastOp'.ret = FALSE
           /\ lastOp'.obj_status = PENDING
           /\ UNCHANGED <<threads, posts, jobs, monthly_post_count>>)]_vars

\* an empty thread was handed in and refused
C10_Witness ==
    /\ lastOp.op = "schedule_thread"
    /\ lastOp.units = 0
    /\ lastOp.ret = FALSE

\* C11: the firing of a standalone post takes the post from SCHEDULED to
\* PUBLISHED, with the remote id the publisher returned recorded on it, when
\* the publisher returned an id, and to FAILED when it returned none or
\* raised; a firing leaves no other status behind.
C11_PostFiringOutcome ==
    (lastOp.op = "fire_post" /\ lastOp.calls # <<>>) =>
        LET p       == posts[lastOp.id]
            outcome == lastOp.calls[1].outcome
        IN /\ p.status \in {PUBLISHED, FAILED}
           /\ lastOp.pre_status = SCHEDULED =>
                  /\ outcome = RETURNS_ID =>
                         /\ p.status = PUBLISHED
                         /\ p.x_post_id = RemoteId(p.id)
                  /\ outcome \in {NO_ID, RAISES} =>
                         /\ p.status = FAILED
                         /\ p.x_post_id = None

\* a SCHEDULED post was fired and the publisher raised
C11_Witness ==
    /\ lastOp.op = "fire_post"
    /\ lastOp.pre_status = SCHEDULED
    /\ lastOp.calls # <<>>
    /\ lastOp.calls[1].outcome = RAISES
    /\ posts[lastOp.id].status = FAILED

\* C12: an admission leaves no partial state. When the booking of the
\* trigger fails inside schedule_post / schedule_thread the call returns
\* False, the entity is not in the registry, its status is not SCHEDULED and
\* the quota is as it was; when the call returns True the entity is
\* registered, SCHEDULED, has a pending trigger and the quota went up by its
\* units.
C12_NoPartialAdmission ==
    /\ (lastOp.op = "schedule_post" /\ lastOp.raised) =>
           /\ lastOp.ret = FALSE
           /\ lastOp.id \notin DOMAIN posts
           /\ lastOp.obj_status # SCHEDULED
           /\ monthly_post_count = lastOp.pre_count
    /\ (lastOp.op = "schedule_thread" /\ lastOp.raised) =>
           /\ lastOp.ret = FALSE
           /\ lastOp.id \notin DOMAIN threads
           /\ lastOp.obj_status # SCHEDULED
           /\ monthly_post_count = lastOp.pre_count
    /\ (lastOp.op = "schedule_post" /\ lastOp.ret) =>
           /\ lastOp.id \in DOMAIN posts
           /\ posts[lastOp.id].status = SCHEDULED
           /\ JobExists(jobs, PostJobId(lastOp.id))
           /\ monthly_post_count = lastOp.pre_count + lastOp.units
    /\ (lastOp.op = "schedule_thread" /\ lastOp.ret) =>
           /\ lastOp.id \in DOMAIN threads
           /\ threads[lastOp.id].status = SCHEDULED
           /\ JobExists(jobs, ThreadJobId(lastOp.id))
           /\ monthly_post_count = lastOp.pre_count + lastOp.units

\* the operations that take a trigger out of the store on the caller's behalf
TriggerRemovers ==
    {"schedule_post", "schedule_thread", "cancel_post", "cancel_thread"}

\* C13: a booked trigger that is neither cancelled nor replaced has its
\* callback invoked exactly once and not before its fire instant: a trigger
\* leaves the store only by a cancellation, by a replacement or by the
\* invocation of its callback at a time when its run date is reached, and
\* the invocation takes it out of the store for good.
C13_TriggerFiresExactlyOnce ==
    [][\A j \in jobs :
           j \notin jobs' =>
               \/ lastOp'.op \in TriggerRemovers
               \/ /\ lastOp'.op \in {"fire_post", "fire_thread"}
                  /\ lastOp'.pre_dates = {j.run_date}
                  /\ j.run_date <= now
                  /\ ~JobExists(jobs', j.id)]_vars

\* C14: a publisher call that fails or raises inside a firing callback
\* makes that entity FAILED and touches nothing else: every other post and
\* thread keeps its status and remote ids, the quota counter stays, and
\* every other pending trigger stays in the store for the dispatcher to
\* fire.
C14_FailureStaysLocal ==
    [][/\ (/\ lastOp'.op = "fire_post"
           /\ lastOp'.calls # <<>>
           /\ lastOp'.calls[1].outcome # RETURNS_ID)
          => (/\ posts'[lastOp'.id].status = FAILED
              /\ DOMAIN posts' = DOMAIN posts
              /\ \A p \in DOMAIN posts \ {lastOp'.id} : posts'[p] = posts[p]
              /\ threads' = threads
              /\ monthly_post_count' = monthly_post_count
              /\ jobs' = {j \in jobs : j.id # PostJobId(lastOp'.id)})
       /\ (/\ lastOp'.op = "fire_thread"
           /\ FirstFailure(lastOp'.calls) > 0)
          => (/\ threads'[lastOp'.id].status = FAILED
              /\ DOMAIN threads' = DOMAIN threads
              /\ \A t \in DOMAIN threads \ {lastOp'.id} :
                     threads'[t] = threads[t]
              /\ posts' = posts
              /\ monthly_post_count' = monthly_post_count
              /\ jobs' = {j \in jobs : j.id # ThreadJobId(lastOp'.id)})]_vars

\* a post's firing failed while a thread was SCHEDULED with its trigger
\* pending
C14_Witness ==
    /\ lastOp.op = "fire_post"
    /\ lastOp.calls # <<>>
    /\ lastOp.calls[1].outcome = RAISES
    /\ posts[lastOp.id].status = FAILED
    /\ \E t \in DOMAIN threads :
           /\ threads[t].status = SCHEDULED
           /\ JobExists(jobs, ThreadJobId(t))

Terminal == {PUBLISHED, FAILED, CANCELLED}

\* the status moves the life cycle allows
AllowedMove(old, new) ==
    \/ old = new
    \/ old = PENDING /\ new = SCHEDULED
    \/ old = SCHEDULED /\ new \in Terminal

\* C19: PUBLISHED, FAILED and CANCELLED are terminal: no schedule, cancel or
\* firing operation, a schedule call with the same identifier included,
\* changes the status of a post or thread that has one of them, and the only
\* moves are PENDING to SCHEDULED and SCHEDULED to a terminal status.
C19_TerminalStatuses ==
    [][/\ \A p \in DOMAIN posts :
              /\ p \in DOMAIN posts'
              /\ AllowedMove(posts[p].status, posts'[p].status)
       /\ \A t \in DOMAIN threads :
              /\ t \in DOMAIN threads'
              /\ AllowedMove(threads[t].status, threads'[t].status)]_vars

\* C20: in a thread firing the first member in position order is published
\* with no reply-to, and every later member is published with reply-to equal
\* to the remote id the publisher returned for the member immediately before
\* it in position order.
C20_RepliesChained ==
    (lastOp.op = "fire_thread" /\ lastOp.calls # <<>>) =>
        LET ps    == threads[lastOp.id].posts
            c     == lastOp.calls
            order == sorted_posts(ps)
        IN /\ c[1].member = order[1]
           /\ c[1].reply_to = None
           /\ \A i \in 2..Len(c) :
                  /\ c[i].member = order[i]
                  /\ c[i - 1].outcome = RETURNS_ID
                  /\ c[i].reply_to = RemoteId(ps[order[i - 1]].id)
                  /\ c[i].reply_to = ps[order[i - 1]].x_post_id

\* the three members of a thread were published out of list order, each
\* reply to the one before it
C20_Witness ==
    /\ lastOp.op = "fire_thread"
    /\ Len(lastOp.calls) = 3
    /\ lastOp.calls[3].outcome = RETURNS_ID
    /\ lastOp.calls[1].member # 1
    /\ lastOp.calls[3].reply_to =
           RemoteId(threads[lastOp.id].posts[lastOp.calls[2].member].id)

\* C16: a post whose content is longer than 280 characters is refused by
\* the validator when it is constructed: no post in the registry, no member
\* of a registered thread and so no entity a trigger is booked for has a
\* content longer than 280.
C16_NoOverlongPost ==
    /\ \A p \in DOMAIN posts : posts[p].content <= 280
    /\ \A t \in DOMAIN threads :
           \A m \in 1..Len(threads[t].posts) :
               threads[t].posts[m].content <= 280

\* a post of 281 characters was refused at construction while posts of 280
\* characters are registered with their triggers pending
C16_Witness ==
    /\ lastOp.op = "create_post"
    /\ lastOp.content = 281
    /\ lastOp.raised
    /\ \E p \in DOMAIN posts :
           posts[p].content = 280 /\ JobExists(jobs, PostJobId(p))
    /\ \E t \in DOMAIN threads :
           /\ threads[t].posts[1].content = 280
           /\ JobExists(jobs, ThreadJobId(t))

\* the publisher call of a firing of the entity has been issued: the firing
\* is in progress or has written its outcome
PublishIssued(kind, id) ==
    \/ \E f \in firing : f.kind = kind /\ f.id = id
    \/ /\ kind = "post"
       /\ id \in DOMAIN posts
       /\ posts[id].status \in {PUBLISHED, FAILED}
    \/ /\ kind = "thread"
       /\ id \in DOMAIN threads
       /\ threads[id].status \in {PUBLISHED, FAILED}

\* C15: cancellation and firing of one entity exclude each other. Once the
\* publisher call of its firing has been issued, cancel_post / cancel_thread
\* returns False and changes neither a status nor the quota; a cancellation
\* that found the trigger takes it out of the store, and a firing starts
\* only from a trigger that is in the store, so the publisher is not called
\* for a trigger that was cancelled.
C15_CancelExcludesFiring ==
    [][/\ (lastOp'.op = "cancel_post" /\ PublishIssued("post", lastOp'.id))
          => (/\ lastOp'.ret = FALSE
              /\ UNCHANGED <<posts, threads, monthly_post_count, firing>>)
       /\ (lastOp'.op = "cancel_thread"
              /\ PublishIssued("thread", lastOp'.id))
          => (/\ lastOp'.ret = FALSE
              /\ UNCHANGED <<posts, threads, monthly_post_count, firing>>)
       /\ (lastOp'.op = "cancel_post" /\ lastOp'.had_job)
          => ~JobExists(jobs', PostJobId(lastOp'.id))
       /\ (lastOp'.op = "cancel_thread" /\ lastOp'.had_job)
          => ~JobExists(jobs', ThreadJobId(lastOp'.id))
       /\ lastOp'.op = "start_fire_post"
          => (/\ JobExists(jobs, PostJobId(lastOp'.id))
              /\ ~JobExists(jobs', PostJobId(lastOp'.id)))
       /\ lastOp'.op = "start_fire_thread"
          => (/\ JobExists(jobs, ThreadJobId(lastOp'.id))
              /\ ~JobExists(jobs', ThreadJobId(lastOp'.id)))]_vars

\* cancel_post was called, and refused, while the firing of the post was
\* waiting for the publisher
C15_Witness ==
    /\ lastOp.op = "cancel_post"
    /\ lastOp.ret = FALSE
    /\ ~lastOp.had_job
    /\ \E f \in firing : f.kind = "post" /\ f.id = lastOp.id /\ f.attached

\* C17: when schedule and cancel calls of different callers interleave
\* between the quota check, the registry write, the booking and the counter
\* update, every admission that returns True adds exactly its units to the
\* counter and the counter does not pass the ceiling.
C17_ConcurrentAdmissionsKeepCeiling ==
    [][(lastOp'.op \in ScheduleOps /\ lastOp'.ret)
       => (/\ monthly_post_count' = monthly_post_count + lastOp'.units
           /\ monthly_post_count' <= max_monthly_posts)]_vars

\* C18: the status write SCHEDULED of schedule_post never lands on a post
\* that its firing callback has already made PUBLISHED or FAILED.
C18_MarkNeverOverwritesFiring ==
    [][lastOp'.op = "mark_scheduled"
       => \A p \in DOMAIN posts :
              posts[p].status \in {PUBLISHED, FAILED}
                  => posts'[p].status = posts[p].status]_vars

\* C21: no retry. In one firing the publisher is called once for a
\* standalone post and at most once for each member of a thread, and a call
\* that gave no id is the last call of the firing: the unit it was made for
\* is not published in that firing.
C21_NoRetry ==
    /\ lastOp.op = "fire_post" => Len(lastOp.calls) <= 1
    /\ lastOp.op = "fire_thread" =>
           LET c  == lastOp.calls
               ps == threads[lastOp.id].posts
           IN /\ \A i, j \in 1..Len(c) :
                     i # j => c[i].member # c[j].member
              /\ \A i \in 1..Len(c) :
                     c[i].outcome # RETURNS_ID =>
                         /\ i = Len(c)
                         /\ ps[c[i].member].status # PUBLISHED
                         /\ ps[c[i].member].x_post_id = None

\* the call for the second of three members failed and was the last one
C21_Witness ==
    /\ lastOp.op = "fire_thread"
    /\ Len(threads[lastOp.id].posts) = 3
    /\ Len(lastOp.calls) = 2
    /\ lastOp.calls[2].outcome = NO_ID

\* the post had this remote id before the step
KeptPostId(p) ==
    /\ p \in DOMAIN posts
    /\ posts[p].x_post_id = posts'[p].x_post_id

\* member m of thread t had this remote id before the step
KeptMemberId(t, m) ==
    /\ t \in DOMAIN threads
    /\ m \in 1..Len(threads[t].posts)
    /\ threads[t].posts[m].x_post_id = threads'[t].posts[m].x_post_id

\* C22: the remote id of a post is set only by a successful publication.
\* A standalone post or thread member has a non-empty x_post_id only when a
\* publisher call made for it returned that id, and every post or member
\* that is PUBLISHED has a non-empty x_post_id.
C22_RemoteIdOnlyAfterPublication ==
    [][/\ \A p \in DOMAIN posts' :
              /\ posts'[p].status = PUBLISHED => posts'[p].x_post_id # None
              /\ posts'[p].x_post_id # None =>
                     /\ posts'[p].x_post_id = RemoteId(posts'[p].id)
                     /\ \/ KeptPostId(p)
                        \/ /\ lastOp'.op = "fire_post"
                           /\ lastOp'.id = p
                           /\ lastOp'.calls[1].outcome = RETURNS_ID
       /\ \A t \in DOMAIN threads' :
              \A m \in 1..Len(threads'[t].posts) :
                  LET q == threads'[t].posts[m]
                  IN /\ q.status = PUBLISHED => q.x_post_id # None
                     /\ q.x_post_id # None =>
                            /\ q.x_post_id = RemoteId(q.id)
                            /\ \/ KeptMemberId(t, m)
                               \/ /\ lastOp'.op = "fire_thread"
                                  /\ lastOp'.id = t
                                  /\ \E i \in 1..Len(lastOp'.calls) :
                                         /\ lastOp'.calls[i].member = m
                                         /\ lastOp'.calls[i].outcome =
                                                RETURNS_ID]_vars

\* a thread firing that failed at its third member left the first two with
\* their remote ids and the third without one
C22_Witness ==
    /\ lastOp.op = "fire_thread"
    /\ Len(lastOp.calls) = 3
    /\ lastOp.calls[3].outcome = RAISES
    /\ threads[lastOp.id].posts[lastOp.calls[2].member].x_post_id # None
    /\ threads[lastOp.id].posts[lastOp.calls[3].member].x_post_id = None

\* C23: a release of quota by a cancellation never takes the consumed
\* counter below zero: after any sequence of admissions, firings and
\* cancellations monthly_post_count >= 0.
C23_QuotaNeverNegative == monthly_post_count >= 0

\* cancel_thread found the trigger of a three-member thread while the
\* thread's three units were all the quota consumed
C23_Witness ==
    /\ lastOp.op = "cancel_thread"
    /\ lastOp.had_job
    /\ lastOp.units = 3
    /\ lastOp.pre_count = 3
    /\ ~JobExists(jobs, ThreadJobId(lastOp.id))

\* C24: the registry never deletes an entity. Once an identifier is
\* registered, get_post / get_thread returns a record for it in every later
\* state, whatever became of it: no operation takes a key out of the post
\* or the thread registry.
C24_RegistryNeverDeletes ==
    [][/\ \A p \in PostIds :
              get_post(p) # None => (p \in DOMAIN posts' /\ posts'[p].id = p)
       /\ \A t \in ThreadIds :
              get_thread(t) # None =>
                  (t \in DOMAIN threads' /\ threads'[t].id = t)]_vars

\* a post that was fired and failed and a thread whose trigger a cancel
\* attempt removed are both still registered
C24_Witness ==
    /\ lastOp.op = "cancel_thread"
    /\ lastOp.had_job
    /\ get_thread(lastOp.id) # None
    /\ \E p \in PostIds : get_post(p) # None /\ get_post(p).status = FAILED

\* a firing of a thread of several members is in progress: its worker is
\* inside publish_thread, where it sleeps before every member but the first
ThreadWaiting ==
    \E f \in firing :
        /\ f.kind = "thread"
        /\ f.attached
        /\ Len(threads[f.id].posts) >= 2

C26_TriggerIffScheduled ==
    /\ \A p \in DOMAIN posts :
           JobExists(jobs, PostJobId(p)) <=> posts[p].status = SCHEDULED
    /\ \A t \in DOMAIN threads :
           JobExists(jobs, ThreadJobId(t)) <=> threads[t].status = SCHEDULED

\* the units of the threads in S that are not cancelled
RECURSIVE ThreadUnits(_, _)
ThreadUnits(reg, S) ==
    IF S = {}
    THEN 0
    ELSE LET t == CHOOSE x \in S : TRUE
         IN (IF reg[t].status = CANCELLED THEN 0 ELSE Len(reg[t].posts))
            + ThreadUnits(reg, S \ {t})

\* 1 per registered post, the member count per registered thread, the
\* cancelled ones left out
RegisteredUnits(ps, ts) ==
    Cardinality({p \in DOMAIN ps : ps[p].status # CANCELLED})
        + ThreadUnits(ts, DOMAIN ts)

\* C27: the quota counter equals the sum of the units of the distinct
\* registered entities that are not cancelled: a second admission under the
\* same identifier does not count its units twice, and a cancel or an
\* admission that returns False leaves the counter as it was.
C27_CounterMatchesRegistry ==
    [][/\ monthly_post_count' = RegisteredUnits(posts', threads')
       /\ (/\ lastOp'.op \in ScheduleOps \cup {"cancel_post", "cancel_thread"}
           /\ lastOp'.ret = FALSE)
          => monthly_post_count' = monthly_post_count]_vars

\* C28: nothing is published twice. Over any sequence of schedule,
\* re-schedule, cancel and firing operations the publisher returns a remote
\* id at most once for a standalone post identifier and at most once for a
\* thread member.
C28_PublishedAtMostOnce ==
    [][/\ lastOp'.op = "fire_post" =>
              Accepted("post", lastOp'.id, lastOp'.calls, <<>>)
                  \cap published = {}
       /\ lastOp'.op = "fire_thread" =>
              Accepted("thread", lastOp'.id, lastOp'.calls,
                       threads[lastOp'.id].posts) \cap published = {}]_vars

\* C29: every admitted entity eventually leaves SCHEDULED. With an advancing
\* clock, a fair dispatcher and publisher calls that return, a post or thread
\* that is SCHEDULED eventually reaches PUBLISHED, FAILED or CANCELLED, also
\* after a cancel attempt on it.
C29_EventuallyLeavesScheduled ==
    /\ \A p \in PostIds :
           (p \in DOMAIN posts /\ posts[p].status = SCHEDULED)
               ~> (p \in DOMAIN posts /\ posts[p].status \in Terminal)
    /\ \A t \in ThreadIds :
           (t \in DOMAIN threads /\ threads[t].status = SCHEDULED)
               ~> (t \in DOMAIN threads /\ threads[t].status \in Terminal)
====
